---- MODULE Spec2Model ----
(***************************************************************************)
(* A model of tools/check_allure_id.py: the checker of the @allure.id and  *)
(* owner-label decorators of pytest test functions.                        *)
(*                                                                         *)
(* Text (identifiers, string literals, paths) is a sequence of characters, *)
(* each character a one-token string: "u0663" stands for the character     *)
(* U+0663 ARABIC-INDIC DIGIT THREE, "\t" for a tab.  Syntax nodes are      *)
(* records that carry the attributes the checker reads.                    *)
(***************************************************************************)
EXTENDS Integers, Sequences, FiniteSets, TLC

VARIABLES
    argv,       \* main: the list of paths given on the command line
    i,          \* main: index of the path the for loop is at
    pc,         \* position of the run
    any_err,    \* main: any_err
    printed,    \* the lines printed so far
    ret,        \* main's return value (-1: not returned)
    errors,     \* check_file: errors
    tree,       \* check_file: the tree ast.parse returned
    frames,     \* walk_with_parents: the active _walk generators
    lists,      \* the list objects of a walk: lists[1] is `stack`
    yielded,    \* the pairs walk_with_parents has yielded so far
    func,       \* the function node a validator is applied to
    match,      \* check_allure_owner: the (call, value) the matcher returned
    result      \* what the validator returned

vars == <<argv, i, pc, any_err, printed, ret, errors, tree, frames, lists,
          yielded, func, match, result>>

-----------------------------------------------------------------------------
(* Bounds of the checked instances.                                        *)

MaxLen == 3         \* characters of a string literal
MaxDecorators == 2  \* decorators of a function
MaxArgs == 2        \* positional arguments of a decorator call
MaxKeywords == 2    \* keyword arguments of a decorator call
MaxNodes == 4       \* nodes of a syntax tree
MaxArgv == 2        \* paths on the command line

SeqsUpTo(S, n) == UNION {[1..k -> S] : k \in 0..n}

-----------------------------------------------------------------------------
(* Text.                                                                   *)

StartsWith(s, p) == Len(s) >= Len(p) /\ SubSeq(s, 1, Len(p)) = p

EndsWith(s, p) == Len(s) >= Len(p) /\ SubSeq(s, Len(s) - Len(p) + 1, Len(s)) = p

AsciiDigits == {"0", "1", "2", "3", "4", "5", "6", "7", "8", "9"}

\* Characters outside ASCII whose Unicode property Numeric_Type is Digit or
\* Decimal: str.isdigit accepts them.
UnicodeDigits == {"u0663"}

Whitespace == {" ", "\t"}

\* str.isdigit: non-empty and every character is a digit
isdigit(v) == Len(v) > 0 /\ \A k \in 1..Len(v) : v[k] \in AsciiDigits \cup UnicodeDigits

RECURSIVE lstrip(_)
lstrip(v) == IF Len(v) > 0 /\ v[1] \in Whitespace THEN lstrip(Tail(v)) ELSE v

RECURSIVE rstrip(_)
rstrip(v) ==
    IF Len(v) > 0 /\ v[Len(v)] \in Whitespace THEN rstrip(SubSeq(v, 1, Len(v) - 1)) ELSE v

\* str.strip
strip(v) == rstrip(lstrip(v))

-----------------------------------------------------------------------------
(* Error codes.                                                            *)

AID_PARSE == "AID000"
AID_MISSING == "AID001"
AID_BAD_ARGC == "AID002"
AID_HAS_KW == "AID003"
AID_BAD_LITERAL == "AID004"
AID_MULTIPLE == "AID005"
AOWN_MISSING == "AOWN001"
AOWN_EMPTY == "AOWN002"

\* err: the formatted line "<path>:<line>:<col> <code> <msg>", kept as its fields
err(path, line, col, code, msg) ==
    [kind |-> "str", path |-> path, line |-> line, col |-> col, code |-> code, msg |-> msg]

\* a validator returning None
None == [kind |-> "None", path |-> <<>>, line |-> 0, col |-> 0, code |-> "", msg |-> ""]

\* a validator left by an exception it does not catch
Raised(exc) == [kind |-> "raise", path |-> <<>>, line |-> 0, col |-> 0, code |-> "", msg |-> exc]

-----------------------------------------------------------------------------
(* Syntax nodes.                                                           *)

\* An expression: its class, and for the classes that have a `value`
\* attribute the type of that value ("AST" when it is a node) and, for a
\* string, its text.
Expr(node, vtype, s) == [node |-> node, vtype |-> vtype, s |-> s]

Str(s) == Expr("Constant", "str", s)
IntConst == Expr("Constant", "int", <<>>)
NoneConst == Expr("Constant", "NoneType", <<>>)
NameExpr == Expr("Name", "absent", <<>>)
UnaryOpExpr == Expr("UnaryOp", "absent", <<>>)
CallExpr == Expr("Call", "absent", <<>>)
AttributeExpr == Expr("Attribute", "AST", <<>>)

\* The callee of a call (or a decorator that is no call): an Attribute
\* <value>.<attr> with the class and the id of <value>, or a Name <id>.
Attr(vnode, vid, attr) == [node |-> "Attribute", vnode |-> vnode, vid |-> vid, attr |-> attr, id |-> ""]
Name(id) == [node |-> "Name", vnode |-> "", vid |-> "", attr |-> "", id |-> id]

Keyword(arg, value) == [arg |-> arg, value |-> value]

\* A decorator: a Call of func with args and keywords, or a bare expression
Call(f, args, keywords) ==
    [node |-> "Call", func |-> f, args |-> args, keywords |-> keywords, lineno |-> 0, col_offset |-> 0]
Bare(f) ==
    [node |-> f.node, func |-> f, args |-> <<>>, keywords |-> <<>>, lineno |-> 0, col_offset |-> 0]

\* The parser's positions: the decorators of a function stand on the lines
\* from `line` on, one per line after the "@", and the def follows them.
Placed(decs, line, col) ==
    [k \in 1..Len(decs) |-> [decs[k] EXCEPT !.lineno = line + k - 1, !.col_offset = col + 1]]

FunctionDef(node, name, decs, line, col) ==
    [node |-> node, name |-> name, decorator_list |-> Placed(decs, line, col),
     lineno |-> line + Len(decs), col_offset |-> col]

-----------------------------------------------------------------------------
(* The @allure.id matcher and validator.                                   *)

allure_id_calls_from_decorators(fn) ==
    SelectSeq(fn.decorator_list,
              LAMBDA d : /\ d.node = "Call"
                         /\ d.func.node = "Attribute"
                         /\ d.func.vnode = "Name"
                         /\ d.func.vid = "allure"
                         /\ d.func.attr = "id")

\* the classes of expression that have an attribute named `value`
HasValueAttribute(arg) == arg.vtype # "absent"

\* lines 163-191: the check of the single positional argument
check_id_argument(path, call) ==
    LET arg == call.args[1]
        v == arg.s
    IN  IF ~HasValueAttribute(arg)
        THEN Raised("AttributeError")
        ELSE IF arg.vtype = "str"
        THEN IF v = <<"0">> \/ ~isdigit(v)
             THEN err(path, call.lineno, call.col_offset, AID_BAD_LITERAL, "digits")
             ELSE IF Len(v) > 1 /\ v[1] = "0"
             THEN err(path, call.lineno, call.col_offset, AID_BAD_LITERAL, "leading zeros")
             ELSE None
        ELSE err(path, call.lineno, call.col_offset, AID_BAD_LITERAL, "not a string")

check_allure_id_kw_first(path, node) ==
    LET calls == allure_id_calls_from_decorators(node)
    IN  IF Len(calls) = 0
        THEN err(path, node.lineno, node.col_offset, AID_MISSING, "missing")
        ELSE IF Len(calls) > 1
        THEN err(path, calls[2].lineno, calls[2].col_offset, AID_MULTIPLE, "multiple")
        ELSE IF Len(calls[1].keywords) # 0
        THEN err(path, calls[1].lineno, calls[1].col_offset, AID_HAS_KW, "keywords")
        ELSE IF Len(calls[1].args) # 1
        THEN err(path, calls[1].lineno, calls[1].col_offset, AID_BAD_ARGC, "argc")
        ELSE check_id_argument(path, calls[1])

check_allure_id(path, node) ==
    LET calls == allure_id_calls_from_decorators(node)
    IN  IF Len(calls) = 0
        THEN err(path, node.lineno, node.col_offset, AID_MISSING, "missing")
        ELSE IF Len(calls) > 1
        THEN err(path, calls[2].lineno, calls[2].col_offset, AID_MULTIPLE, "multiple")
        ELSE IF Len(calls[1].args) # 1
        THEN err(path, calls[1].lineno, calls[1].col_offset, AID_BAD_ARGC, "argc")
        ELSE IF Len(calls[1].keywords) # 0
        THEN err(path, calls[1].lineno, calls[1].col_offset, AID_HAS_KW, "keywords")
        ELSE check_id_argument(path, calls[1])

-----------------------------------------------------------------------------
(* The owner matcher and validator.                                        *)

OwnerText == <<"o", "w", "n", "e", "r">>

\* the tuple allure_owner_label_call returns: (None, None) has found = FALSE
NoCall == Bare(Name(""))
OwnerMatch(dec, value) == [found |-> TRUE, call |-> dec, value |-> value]
NoOwnerMatch == [found |-> FALSE, call |-> NoCall, value |-> <<>>]

IsStrConstant(e) == e.node = "Constant" /\ e.vtype = "str"

\* lines 95-102 and 106-113: the first keyword named value or owner that
\* holds a string literal, else the empty string
RECURSIVE owner_from_keywords(_, _)
owner_from_keywords(dec, kws) ==
    IF kws = <<>>
    THEN OwnerMatch(dec, <<>>)
    ELSE IF Head(kws).arg \in {"value", "owner"} /\ IsStrConstant(Head(kws).value)
    THEN OwnerMatch(dec, Head(kws).value.s)
    ELSE owner_from_keywords(dec, Tail(kws))

\* lines 91-102: a call of allure.label whose first argument is "owner"
label_owner_value(dec) ==
    IF Len(dec.args) >= 2 /\ IsStrConstant(dec.args[2])
    THEN OwnerMatch(dec, dec.args[2].s)
    ELSE owner_from_keywords(dec, dec.keywords)

owner_value_second_positional(dec) ==
    IF Len(dec.args) >= 2 /\ IsStrConstant(dec.args[2])
    THEN OwnerMatch(dec, dec.args[2].s)
    ELSE owner_from_keywords(dec, dec.keywords)

\* lines 103-113: a call of the bare name owner
owner_value(dec) ==
    IF Len(dec.args) >= 1 /\ IsStrConstant(dec.args[1])
    THEN OwnerMatch(dec, dec.args[1].s)
    ELSE owner_from_keywords(dec, dec.keywords)

is_allure_label(f) ==
    f.node = "Attribute" /\ f.vnode = "Name" /\ f.vid = "allure" /\ f.attr = "label"

\* line 91: the first positional argument is the literal "owner"
first_arg_is_owner(dec) ==
    Len(dec.args) >= 1 /\ dec.args[1].node = "Constant" /\ dec.args[1].vtype = "str"
        /\ dec.args[1].s = OwnerText

RECURSIVE owner_scan_label_any_key(_)
owner_scan_label_any_key(decs) ==
    IF decs = <<>>
    THEN NoOwnerMatch
    ELSE LET dec == Head(decs)
         IN  IF dec.node # "Call"
             THEN owner_scan_label_any_key(Tail(decs))
             ELSE IF is_allure_label(dec.func)
             THEN IF ~first_arg_is_owner(dec)
                  THEN OwnerMatch(dec, <<>>)
                  ELSE label_owner_value(dec)
             ELSE IF dec.func.node = "Name" /\ dec.func.id = "owner"
             THEN owner_value(dec)
             ELSE owner_scan_label_any_key(Tail(decs))

\* lines 81-114: the loop over the decorators, from the first one on
RECURSIVE owner_scan(_)
owner_scan(decs) ==
    IF decs = <<>>
    THEN NoOwnerMatch
    ELSE LET dec == Head(decs)
         IN  IF dec.node # "Call"
             THEN owner_scan(Tail(decs))
             ELSE IF is_allure_label(dec.func)
             THEN IF ~first_arg_is_owner(dec)
                  THEN owner_scan(Tail(decs))
                  ELSE label_owner_value(dec)
             ELSE IF dec.func.node = "Name" /\ dec.func.id = "owner"
             THEN owner_value(dec)
             ELSE owner_scan(Tail(decs))

allure_owner_label_call(fn) == owner_scan(fn.decorator_list)

check_allure_owner(path, node) ==
    LET m == allure_owner_label_call(node)
    IN  IF ~m.found
        THEN err(path, node.lineno, node.col_offset, AOWN_MISSING, "missing")
        ELSE IF strip(m.value) = <<>>
        THEN err(path, m.call.lineno, m.call.col_offset, AOWN_EMPTY, "empty")
        ELSE None

-----------------------------------------------------------------------------
(* Files, trees and the traversal.                                         *)

Max(S) == CHOOSE x \in S : \A y \in S : x >= y

\* pathlib's Path(path).name: what follows the last "/"
PathName(path) ==
    LET slashes == {k \in 1..Len(path) : path[k] = "/"}
    IN  IF slashes = {} THEN path ELSE SubSeq(path, Max(slashes) + 1, Len(path))

TestPrefix == <<"t", "e", "s", "t", "_">>
PyExtension == <<".", "p", "y">>

is_test_file_whole_path(path) == StartsWith(path, TestPrefix) /\ EndsWith(path, PyExtension)

is_test_file(path) ==
    LET name == PathName(path)
    IN  StartsWith(name, TestPrefix) /\ EndsWith(name, PyExtension)

\* A node of a tree: a function definition, or a Module, ClassDef or If with
\* the fields the checker reads; `parent` is the index of the node it is a
\* child of (0 for the root), and the children of a node are in index order.
InTree(n, parent) == [n EXCEPT !.parent = parent]

Statement(node, id) ==
    [node |-> node, name |-> <<>>, decorator_list |-> <<>>, lineno |-> 10 * id, col_offset |-> 0,
     parent |-> 0]

Def(node, name, decs, id) ==
    [node |-> node, name |-> name, decorator_list |-> Placed(decs, 10 * id, 0),
     lineno |-> 10 * id + Len(decs), col_offset |-> 0, parent |-> 0]

\* ast.iter_child_nodes(node), as indexes
RECURSIVE ChildrenFrom(_, _, _)
ChildrenFrom(t, n, j) ==
    IF j > Len(t) THEN <<>>
    ELSE IF t[j].parent = n THEN <<j>> \o ChildrenFrom(t, n, j + 1)
    ELSE ChildrenFrom(t, n, j + 1)

iter_child_nodes(t, n) == ChildrenFrom(t, n, 1)

FunctionClasses == {"FunctionDef", "AsyncFunctionDef"}

is_test_function_any_parent(node, parents) ==
    IF node.node \notin FunctionClasses THEN FALSE
    ELSE StartsWith(node.name, TestPrefix)

is_test_function(node, parents) ==
    IF node.node \notin FunctionClasses THEN FALSE
    ELSE IF ~StartsWith(node.name, TestPrefix) THEN FALSE
    ELSE IF parents = <<>> THEN TRUE
    ELSE parents[Len(parents)].node \in {"Module", "ClassDef"}

\* stack.copy(): a new list object holding what lists[1], the stack, holds now
stack_alias(ls) == [heap |-> ls, ref |-> 1]

stack_copy(ls) == [heap |-> Append(ls, ls[1]), ref |-> Len(ls) + 1]

\* lines 244-251: the body of check_file's loop for one yielded pair; the
\* errors list after it, or the exception that leaves it
loop_body(path, node, parents, errs) ==
    IF ~is_test_function(node, parents)
    THEN [raised |-> FALSE, errors |-> errs]
    ELSE LET e1 == check_allure_id(path, node)
             e2 == check_allure_owner(path, node)
             errs1 == IF e1.kind = "str" THEN Append(errs, e1) ELSE errs
         IN  IF e1.kind = "raise"
             THEN [raised |-> TRUE, errors |-> errs]
             ELSE [raised |-> FALSE,
                   errors |-> IF e2.kind = "str" THEN Append(errs1, e2) ELSE errs1]

-----------------------------------------------------------------------------
(* The validators applied to one function: the functions they are given.   *)

TestPath == <<"t", "e", "s", "t", "_", "a", ".", "p", "y">>
TestName == <<"t", "e", "s", "t", "_", "x">>

AllureId == Attr("Name", "allure", "id")
AllureLabel == Attr("Name", "allure", "label")

IdAlphabet == {"0", "1", "7", "-", " ", "a", "u0663"}
IdStrings == SeqsUpTo(IdAlphabet, MaxLen)
IdArgExprs ==
    {Str(s) : s \in IdStrings}
        \cup {IntConst, NoneConst, NameExpr, UnaryOpExpr, CallExpr, AttributeExpr}

TestFunction(decs) == FunctionDef("FunctionDef", TestName, decs, 1, 0)

ShapeExprs == {Str(<<"1", "2">>), NameExpr}
ShapeKeywords == {Keyword("x", Str(<<"1">>))}
IdShapeDecorators ==
    {Call(AllureId, a, k) : a \in SeqsUpTo(ShapeExprs, MaxArgs),
                            k \in SeqsUpTo(ShapeKeywords, MaxKeywords)}
        \cup {Call(f, <<>>, <<>>) : f \in {AllureLabel, Attr("Name", "pytest", "id"),
                                          Attr("Attribute", "", "id"), Name("id")}}
        \cup {Bare(AllureId)}

Idle ==
    /\ argv = <<>>
    /\ i = 1
    /\ any_err = FALSE
    /\ printed = <<>>
    /\ ret = -1
    /\ errors = <<>>
    /\ tree = <<>>
    /\ frames = <<>>
    /\ lists = <<>>
    /\ yielded = <<>>

\* one @allure.id(<expression>), or up to MaxDecorators decorators of every
\* shape the matcher tells apart
InitId ==
    /\ \/ \E e \in IdArgExprs : func = TestFunction(<<Call(AllureId, <<e>>, <<>>)>>)
       \/ \E ds \in SeqsUpTo(IdShapeDecorators, MaxDecorators) : func = TestFunction(ds)
    /\ pc = "start"
    /\ result = None
    /\ match = NoOwnerMatch
    /\ Idle

RunCheckAllureId ==
    /\ pc = "start"
    /\ result' = check_allure_id(TestPath, func)
    /\ pc' = "checked"
    /\ UNCHANGED <<argv, i, any_err, printed, ret, errors, tree, frames, lists, yielded, func, match>>

SpecId == InitId /\ [][RunCheckAllureId]_vars

-----------------------------------------------------------------------------
(* Properties of check_allure_id.                                          *)

IsDiag(r, code, line, col) == r.kind = "str" /\ r.code = code /\ r.line = line /\ r.col = col

\* a decorator of the exact shape allure.id(...)
IsIdMarker(d) == d.node = "Call" /\ d.func = AllureId

IdMarkers == SelectSeq(func.decorator_list, IsIdMarker)

\* exactly one marker, with one positional and no keyword argument
OneIdMarkerOneArgument ==
    /\ Len(IdMarkers) = 1
    /\ Len(IdMarkers[1].args) = 1
    /\ Len(IdMarkers[1].keywords) = 0

\* ^[1-9][0-9]*$
IsCanonical(s) ==
    /\ Len(s) >= 1
    /\ s[1] \in AsciiDigits \ {"0"}
    /\ \A k \in 1..Len(s) : s[k] \in AsciiDigits

\* C2: a single @allure.id call with one positional argument that is not a
\* string literal (a number, a name, a unary minus, a call, ...) is answered
\* with exactly one AID004 at the call.
C2_NonStringArgumentIsAID004 ==
    (pc = "checked" /\ OneIdMarkerOneArgument /\ ~IsStrConstant(IdMarkers[1].args[1]))
        => IsDiag(result, AID_BAD_LITERAL, IdMarkers[1].lineno, IdMarkers[1].col_offset)

\* C3: a single @allure.id call with one string literal s is answered with
\* no diagnostic if and only if s matches ^[1-9][0-9]*$, and with exactly
\* one AID004 at the call for every other s.
C3_StringAcceptedIffCanonical ==
    (pc = "checked" /\ OneIdMarkerOneArgument /\ IsStrConstant(IdMarkers[1].args[1]))
        => IF IsCanonical(IdMarkers[1].args[1].s)
           THEN result = None
           ELSE IsDiag(result, AID_BAD_LITERAL, IdMarkers[1].lineno, IdMarkers[1].col_offset)

\* C6: check_allure_id gives at most one diagnostic, that of the first
\* condition that holds: no marker (AID001 at the function), several (AID005
\* at the second), positional count other than one (AID002), any keyword
\* (AID003), and else the argument check, whose only diagnostic is AID004.
C6_FirstConditionWins ==
    pc = "checked" =>
        IF Len(IdMarkers) = 0
        THEN IsDiag(result, AID_MISSING, func.lineno, func.col_offset)
        ELSE IF Len(IdMarkers) > 1
        THEN IsDiag(result, AID_MULTIPLE, IdMarkers[2].lineno, IdMarkers[2].col_offset)
        ELSE IF Len(IdMarkers[1].args) # 1
        THEN IsDiag(result, AID_BAD_ARGC, IdMarkers[1].lineno, IdMarkers[1].col_offset)
        ELSE IF Len(IdMarkers[1].keywords) # 0
        THEN IsDiag(result, AID_HAS_KW, IdMarkers[1].lineno, IdMarkers[1].col_offset)
        ELSE result.kind = "str"
                => IsDiag(result, AID_BAD_LITERAL, IdMarkers[1].lineno, IdMarkers[1].col_offset)

\* a call with no positional and one keyword argument, answered AID002
C6_Witness ==
    /\ pc = "checked"
    /\ Len(IdMarkers) = 1
    /\ Len(IdMarkers[1].args) = 0
    /\ Len(IdMarkers[1].keywords) = 1
    /\ result.code = AID_BAD_ARGC

-----------------------------------------------------------------------------
(* check_allure_owner applied to one function.                             *)

OwnerAlphabet == {" ", "\t", "a"}
OwnerStrings == SeqsUpTo(OwnerAlphabet, MaxLen)

ExtractExprs == {Str(OwnerText), Str(<<"a">>), Str(<<" ">>), IntConst, NameExpr}
ExtractKeywords ==
    {Keyword("value", Str(<<"b">>)), Keyword("owner", Str(<<"c">>)), Keyword("other", Str(<<"b">>)),
     Keyword("value", IntConst), Keyword("owner", NameExpr)}

OwnerScanDecorators ==
    {Call(AllureLabel, <<Str(OwnerText), Str(<<"a">>)>>, <<>>),
     Call(AllureLabel, <<Str(OwnerText), Str(<<" ">>)>>, <<>>),
     Call(AllureLabel, <<Str(OwnerText)>>, <<>>),
     Call(AllureLabel, <<Str(<<"a">>), Str(<<"a">>)>>, <<>>),
     Call(AllureLabel, <<NameExpr, Str(<<"a">>)>>, <<>>),
     Call(AllureLabel, <<IntConst, Str(<<"a">>)>>, <<>>),
     Call(AllureLabel, <<>>, <<Keyword("value", Str(<<"b">>))>>),
     Call(Name("owner"), <<Str(<<"a">>)>>, <<>>),
     Call(Name("owner"), <<>>, <<>>),
     Bare(Name("owner")),
     Call(AllureId, <<Str(<<"1">>)>>, <<>>),
     Call(Attr("Name", "pytest", "label"), <<Str(OwnerText), Str(<<"a">>)>>, <<>>),
     Call(Attr("Attribute", "", "label"), <<Str(OwnerText), Str(<<"a">>)>>, <<>>),
     Call(Name("author"), <<Str(<<"a">>)>>, <<>>)}

\* one owner marker of either shape with a string literal as the value; one
\* call of allure.label or owner with every argument list; up to
\* MaxDecorators decorators, matching and not
InitOwner ==
    /\ \/ \E s \in OwnerStrings :
             func = TestFunction(<<Call(AllureLabel, <<Str(OwnerText), Str(s)>>, <<>>)>>)
       \/ \E s \in OwnerStrings : func = TestFunction(<<Call(Name("owner"), <<Str(s)>>, <<>>)>>)
       \/ \E f \in {AllureLabel, Name("owner")}, a \in SeqsUpTo(ExtractExprs, MaxArgs),
             k \in SeqsUpTo(ExtractKeywords, MaxKeywords) : func = TestFunction(<<Call(f, a, k)>>)
       \/ \E ds \in SeqsUpTo(OwnerScanDecorators, MaxDecorators) : func = TestFunction(ds)
    /\ pc = "start"
    /\ result = None
    /\ match = NoOwnerMatch
    /\ Idle

RunCheckAllureOwner ==
    /\ pc = "start"
    /\ match' = allure_owner_label_call(func)
    /\ result' = check_allure_owner(TestPath, func)
    /\ pc' = "checked"
    /\ UNCHANGED <<argv, i, any_err, printed, ret, errors, tree, frames, lists, yielded, func>>

SpecOwner == InitOwner /\ [][RunCheckAllureOwner]_vars

-----------------------------------------------------------------------------
(* Properties of the owner matcher and validator.                          *)

OwnerKeywordIndexes(d) ==
    {k \in 1..Len(d.keywords) :
        d.keywords[k].arg \in {"value", "owner"} /\ IsStrConstant(d.keywords[k].value)}

Min(S) == CHOOSE x \in S : \A y \in S : x <= y

\* the value of the first keyword named value or owner holding a string
\* literal, the empty value when there is none
KeywordValue(d) ==
    IF OwnerKeywordIndexes(d) = {} THEN <<>> ELSE d.keywords[Min(OwnerKeywordIndexes(d))].value.s

\* the value looked for at positional argument n first, then in the keywords
ValueAt(d, n) ==
    IF Len(d.args) >= n /\ IsStrConstant(d.args[n]) THEN d.args[n].s ELSE KeywordValue(d)

\* the precedence as amended: the positional argument after the key
ExpectedValue(d) == IF d.func = AllureLabel THEN ValueAt(d, 2) ELSE ValueAt(d, 1)

\* C4 as stated: under either shape the value of a matched call is its second
\* positional argument if that is a string literal, else the string value of
\* a keyword named value or owner, else empty.
C4_SecondPositionalUnderEitherShape ==
    (pc = "checked" /\ match.found) => match.value = ValueAt(match.call, 2)

\* C4 as amended: the value of a matched allure.label("owner", ...) call is
\* its second positional argument, that of a matched owner(...) call its
\* first, if that argument is a string literal; else the string value of the
\* first keyword named value or owner; else the call is matched with an
\* empty value and answered AOWN002.
C4_ValuePrecedence ==
    (pc = "checked" /\ match.found) =>
        /\ match.value = ExpectedValue(match.call)
        /\ ExpectedValue(match.call) = <<>> => result.code = AOWN_EMPTY

\* owner(...) with two different string literals: the first is the value
C4_Witness ==
    /\ pc = "checked"
    /\ match.found
    /\ match.call.func = Name("owner")
    /\ Len(match.call.args) = 2
    /\ IsStrConstant(match.call.args[1])
    /\ IsStrConstant(match.call.args[2])
    /\ match.call.args[1] # match.call.args[2]
    /\ match.value = match.call.args[1].s

\* a decorator the owner matcher decides on
IsOwnerMarker(d) ==
    /\ d.node = "Call"
    /\ \/ d.func = AllureLabel /\ Len(d.args) >= 1 /\ d.args[1] = Str(OwnerText)
       \/ d.func = Name("owner")

OwnerMarkerIndexes == {k \in 1..Len(func.decorator_list) : IsOwnerMarker(func.decorator_list[k])}

\* C7: check_allure_owner decides on the first decorator, in source order,
\* that is allure.label("owner", ...) or owner(...), skipping every other
\* decorator: AOWN001 at the function if there is none, AOWN002 at that call
\* if its value is empty after stripping, and no diagnostic otherwise.
C7_FirstOwnerMarkerDecides ==
    pc = "checked" =>
        IF OwnerMarkerIndexes = {}
        THEN ~match.found /\ IsDiag(result, AOWN_MISSING, func.lineno, func.col_offset)
        ELSE LET d == func.decorator_list[Min(OwnerMarkerIndexes)]
             IN  /\ match.found
                 /\ match.call = d
                 /\ IF strip(ExpectedValue(d)) = <<>>
                    THEN IsDiag(result, AOWN_EMPTY, d.lineno, d.col_offset)
                    ELSE result = None

\* an allure.label call with another key is skipped and a later marker decides
C7_Witness ==
    /\ pc = "checked"
    /\ Len(func.decorator_list) >= 2
    /\ func.decorator_list[1].node = "Call"
    /\ func.decorator_list[1].func = AllureLabel
    /\ ~IsOwnerMarker(func.decorator_list[1])
    /\ IsOwnerMarker(func.decorator_list[2])
    /\ result = None

-----------------------------------------------------------------------------
(* The run of main over the files of the command line.                     *)

\* the labels a node of a generated tree can carry, placed at index id
ValidDecorators ==
    <<Call(AllureId, <<Str(<<"1", "2">>)>>, <<>>),
      Call(AllureLabel, <<Str(OwnerText), Str(<<"b", "o", "b">>)>>, <<>>)>>
NameArgDecorators ==
    <<Call(AllureId, <<NameExpr>>, <<>>),
      Call(AllureLabel, <<Str(OwnerText), Str(<<"b", "o", "b">>)>>, <<>>)>>

NodeLabels(id) ==
    {Statement("ClassDef", id),
     Statement("If", id),
     Def("FunctionDef", TestName, <<>>, id),
     Def("FunctionDef", <<"t", "e", "s", "t">>, <<>>, id),
     Def("AsyncFunctionDef", TestName, ValidDecorators, id),
     Def("FunctionDef", TestName, NameArgDecorators, id)}

\* a tree of n nodes under a Module: node j hangs under par[j], an earlier
\* node, and carries label lab[j]
ParentChoices(n) == {f \in [2..n -> 1..n] : \A j \in 2..n : f[j] < j}
LabelChoices(n) ==
    {g \in [2..n -> UNION {NodeLabels(j) : j \in 2..n}] : \A j \in 2..n : g[j] \in NodeLabels(j)}
TreeOf(n, par, lab) ==
    [j \in 1..n |-> IF j = 1 THEN Statement("Module", 1) ELSE InTree(lab[j], par[j])]

\* An argument of the command line: the path, and what the file system and
\* the parser answer for it: read is "ok" or "error"; parse is "ok",
\* "SyntaxError" (lineno 0: e.lineno is None) or "MemoryError", standing for
\* the exceptions of ast.parse that are no SyntaxError.
File(path, read, parse, lineno, t) ==
    [path |-> path, read |-> read, parse |-> parse, lineno |-> lineno, tree |-> t]

PathTxt == <<"t", "e", "s", "t", "_", "a", ".", "t", "x", "t">>
PathPlain == <<"a", ".", "p", "y">>
PathTestDir == <<"t", "e", "s", "t", "_", "d", "/", "a", ".", "p", "y">>
PathInDir == <<"d", "/", "t", "e", "s", "t", "_", "a", ".", "p", "y">>

Module1(n) == <<Statement("Module", 1), InTree(n, 1)>>
CleanTree == Module1(Def("AsyncFunctionDef", TestName, ValidDecorators, 2))
BareTree == Module1(Def("FunctionDef", TestName, <<>>, 2))
NameArgTree == Module1(Def("FunctionDef", TestName, NameArgDecorators, 2))

MainFiles ==
    {File(PathTxt, "error", "ok", 0, <<>>),
     File(PathPlain, "ok", "SyntaxError", 3, <<>>),
     File(PathTestDir, "ok", "ok", 0, BareTree),
     File(PathInDir, "error", "ok", 0, <<>>),
     File(TestPath, "ok", "SyntaxError", 3, <<>>),
     File(TestPath, "ok", "SyntaxError", 0, <<>>),
     File(TestPath, "ok", "MemoryError", 0, <<>>),
     File(TestPath, "ok", "ok", 0, CleanTree),
     File(PathInDir, "ok", "ok", 0, BareTree),
     File(TestPath, "ok", "ok", 0, NameArgTree)}

\* up to MaxArgv files of those above, or one test file holding any tree of
\* up to MaxNodes nodes
Init ==
    /\ \/ argv \in SeqsUpTo(MainFiles, MaxArgv)
       \/ \E n \in 1..MaxNodes : \E par \in ParentChoices(n), lab \in LabelChoices(n) :
             argv = <<File(TestPath, "ok", "ok", 0, TreeOf(n, par, lab))>>
    /\ i = 1
    /\ pc = "main"
    /\ any_err = FALSE
    /\ printed = <<>>
    /\ ret = -1
    /\ errors = <<>>
    /\ tree = <<>>
    /\ frames = <<>>
    /\ lists = <<>>
    /\ yielded = <<>>
    /\ func = FunctionDef("FunctionDef", TestName, <<>>, 1, 0)
    /\ match = NoOwnerMatch
    /\ result = None

\* print(e) for every e of errs, while the loop of main is at argv[i]
Printing(errs) == [k \in 1..Len(errs) |-> [arg |-> i, text |-> errs[k]]]

\* lines 263-268 and 226-241: main takes the next path; check_file reads and
\* parses it, up to the first step of the traversal
MainFor ==
    /\ pc = "main"
    /\ i <= Len(argv)
    /\ LET f == argv[i]
           p == f.path
           skip == ~EndsWith(p, PyExtension) \/ ~is_test_file(p)
           failed == f.read = "error" \/ f.parse = "SyntaxError"
           errs == IF f.read = "error"
                   THEN <<err(p, 1, 0, AID_PARSE, "read")>>
                   ELSE <<err(p, IF f.lineno = 0 THEN 1 ELSE f.lineno, 0, AID_PARSE, "syntax")>>
       IN  IF skip
           THEN /\ i' = i + 1
                /\ UNCHANGED <<pc, any_err, printed, errors, tree, frames, lists, yielded>>
           ELSE IF failed
           THEN /\ i' = i + 1
                /\ any_err' = TRUE
                /\ printed' = printed \o Printing(errs)
                /\ UNCHANGED <<pc, errors, tree, frames, lists, yielded>>
           ELSE IF f.parse # "ok"
           THEN /\ pc' = "raised"
                /\ UNCHANGED <<i, any_err, printed, errors, tree, frames, lists, yielded>>
           ELSE /\ pc' = "walk"
                /\ tree' = f.tree
                /\ errors' = <<>>
                /\ frames' = <<[node |-> 1, at |-> "start", k |-> 1]>>
                /\ lists' = << <<>> >>
                /\ yielded' = <<>>
                /\ UNCHANGED <<i, any_err, printed>>
    /\ UNCHANGED <<argv, ret, func, match, result>>

Top == frames[Len(frames)]
SetTop(fr) == [frames EXCEPT ![Len(frames)] = fr]
NodesOf(ids) == [k \in 1..Len(ids) |-> tree[ids[k]]]

\* line 44 and lines 243-251: _walk yields the node with a copy of the stack,
\* and check_file runs the body of its loop on the pair
WalkYield ==
    /\ pc = "walk"
    /\ frames # <<>>
    /\ Top.at = "start"
    /\ LET snap == stack_copy(lists)
           body == loop_body(argv[i].path, tree[Top.node], NodesOf(snap.heap[snap.ref]), errors)
       IN  /\ lists' = snap.heap
           /\ yielded' = Append(yielded, [node |-> Top.node, parents |-> snap.ref])
           /\ errors' = body.errors
           /\ pc' = IF body.raised THEN "raised" ELSE "walk"
    /\ frames' = SetTop([Top EXCEPT !.at = "resumed"])
    /\ UNCHANGED <<argv, i, any_err, printed, ret, tree, func, match, result>>

\* line 45: stack.append(node)
WalkAppend ==
    /\ pc = "walk"
    /\ frames # <<>>
    /\ Top.at = "resumed"
    /\ lists' = [lists EXCEPT ![1] = Append(lists[1], Top.node)]
    /\ frames' = SetTop([Top EXCEPT !.at = "loop"])
    /\ UNCHANGED <<argv, i, pc, any_err, printed, ret, errors, tree, yielded, func, match, result>>

\* lines 46-47: yield from _walk(child) for the next child
WalkChild ==
    /\ pc = "walk"
    /\ frames # <<>>
    /\ Top.at = "loop"
    /\ Top.k <= Len(iter_child_nodes(tree, Top.node))
    /\ frames' = Append(SetTop([Top EXCEPT !.k = Top.k + 1]),
                        [node |-> iter_child_nodes(tree, Top.node)[Top.k], at |-> "start", k |-> 1])
    /\ UNCHANGED <<argv, i, pc, any_err, printed, ret, errors, tree, lists, yielded, func, match, result>>

\* line 48: the children are done: stack.pop(), and _walk returns
WalkPop ==
    /\ pc = "walk"
    /\ frames # <<>>
    /\ Top.at = "loop"
    /\ Top.k > Len(iter_child_nodes(tree, Top.node))
    /\ lists' = [lists EXCEPT ![1] = SubSeq(lists[1], 1, Len(lists[1]) - 1)]
    /\ frames' = SubSeq(frames, 1, Len(frames) - 1)
    /\ UNCHANGED <<argv, i, pc, any_err, printed, ret, errors, tree, yielded, func, match, result>>

\* lines 253 and 266-268: the traversal is over, check_file returns errors
\* and main prints them
CheckFileReturn ==
    /\ pc = "walk"
    /\ frames = <<>>
    /\ printed' = printed \o Printing(errors)
    /\ any_err' = (any_err \/ errors # <<>>)
    /\ i' = i + 1
    /\ pc' = "main"
    /\ UNCHANGED <<argv, ret, errors, tree, frames, lists, yielded, func, match, result>>

\* line 269
MainReturn ==
    /\ pc = "main"
    /\ i > Len(argv)
    /\ ret' = IF any_err THEN 1 ELSE 0
    /\ pc' = "done"
    /\ UNCHANGED <<argv, i, any_err, printed, errors, tree, frames, lists, yielded, func, match, result>>

Next == MainFor \/ WalkYield \/ WalkAppend \/ WalkChild \/ WalkPop \/ CheckFileReturn \/ MainReturn

Spec == Init /\ [][Next]_vars

-----------------------------------------------------------------------------
(* Properties of the run.                                                  *)

\* the path from the root down to the parent of node j
RECURSIVE AncestorPath(_, _)
AncestorPath(t, j) ==
    IF t[j].parent = 0 THEN <<>> ELSE Append(AncestorPath(t, t[j].parent), t[j].parent)

Range(s) == {s[k] : k \in 1..Len(s)}

\* the nodes under the nodes ns, each node before its children
RECURSIVE PreOrder(_, _)
PreOrder(t, ns) ==
    IF ns = <<>> THEN <<>>
    ELSE <<Head(ns)>> \o PreOrder(t, iter_child_nodes(t, Head(ns))) \o PreOrder(t, Tail(ns))

\* the class of the nearest class or function definition around node j
RECURSIVE NearestDefinition(_, _)
NearestDefinition(t, j) ==
    IF t[j].parent = 0 THEN "Module"
    ELSE IF t[t[j].parent].node \in FunctionClasses \cup {"ClassDef"} THEN t[t[j].parent].node
    ELSE NearestDefinition(t, t[j].parent)

IsTestNamedFunction(n) == n.node \in FunctionClasses /\ StartsWith(n.name, TestPrefix)

\* the diagnostics of check_file that stand on the lines of node j
DiagnosticsOf(j) == {k \in 1..Len(errors) : errors[k].line \in (10 * j)..(10 * j + 9)}

\* node yielded[k] was not taken for a test function and has no diagnostic
NotChecked(k) ==
    /\ ~is_test_function(tree[yielded[k].node], NodesOf(lists[yielded[k].parents]))
    /\ DiagnosticsOf(yielded[k].node) = {}

\* C1: no exception raised while a file is analysed aborts the run: main
\* always goes on to the next file and returns 0 or 1.
C1_NoExceptionAbortsTheRun == pc # "raised"

\* C5 as stated: a function named test_* with a function definition anywhere
\* in its ancestor chain is never classified as a test function and gets no
\* diagnostic.
C5_FunctionAnywhereAbove ==
    \A k \in 1..Len(yielded) :
        (/\ IsTestNamedFunction(tree[yielded[k].node])
         /\ \E a \in Range(AncestorPath(tree, yielded[k].node)) : tree[a].node \in FunctionClasses)
            => NotChecked(k)

\* C5 as amended: a function named test_* whose nearest enclosing class or
\* function definition is a function definition (directly, or through
\* intermediate nodes that are not class definitions) is never classified
\* as a test function, and check_file has no diagnostic for it.
C5_NestedInFunctionNotChecked ==
    \A k \in 1..Len(yielded) :
        (/\ IsTestNamedFunction(tree[yielded[k].node])
         /\ NearestDefinition(tree, yielded[k].node) \in FunctionClasses)
            => NotChecked(k)

\* a traversal that went over an undecorated test_* function standing in an
\* if statement of a function
C5_Witness ==
    /\ pc = "walk"
    /\ frames = <<>>
    /\ \E j \in 2..Len(tree) :
          /\ IsTestNamedFunction(tree[j])
          /\ tree[j].decorator_list = <<>>
          /\ tree[tree[j].parent].node = "If"
          /\ NearestDefinition(tree, j) \in FunctionClasses

\* the command line argument k is a test file that cannot be read or parsed
Unusable(k) ==
    /\ EndsWith(argv[k].path, PyExtension)
    /\ StartsWith(PathName(argv[k].path), TestPrefix)
    /\ argv[k].read = "error" \/ argv[k].parse # "ok"

PrintedFor(k) == SelectSeq(printed, LAMBDA l : l.arg = k)

\* C8: a test file that cannot be read or parsed gives exactly one
\* diagnostic, AID000 (line 1 for a read failure, the parser's line or 1 for
\* a parse failure, column 0), no exception leaves check_file, and main
\* returns 1.
C8_UnusableFileIsOneAID000 ==
    \A k \in 1..Len(argv) :
        Unusable(k) =>
            /\ ~(pc = "raised" /\ i = k)
            /\ i > k =>
                  /\ Len(PrintedFor(k)) = 1
                  /\ IsDiag(PrintedFor(k)[1].text, AID_PARSE,
                            IF argv[k].read = "error" \/ argv[k].lineno = 0 THEN 1 ELSE argv[k].lineno, 0)
            /\ pc = "done" => ret = 1

\* C9: main returns 1 if and only if a diagnostic line was printed, else 0;
\* arguments that do not end in .py, or whose final segment does not start
\* with test_, print nothing, readable or not, and leave the status alone.
C9_ExitStatusIffPrinted ==
    /\ any_err = (printed # <<>>)
    /\ pc = "done" => ret = IF printed # <<>> THEN 1 ELSE 0
    /\ \A k \in 1..Len(printed) :
          /\ EndsWith(argv[printed[k].arg].path, PyExtension)
          /\ StartsWith(PathName(argv[printed[k].arg].path), TestPrefix)

\* a run over an unparseable a.py and a test_d/a.py holding a bare test
\* function, ended with status 0
C9_Witness ==
    /\ pc = "done"
    /\ ret = 0
    /\ \E k \in 1..Len(argv) : argv[k].path = PathPlain /\ argv[k].parse = "SyntaxError"
    /\ \E k \in 1..Len(argv) : argv[k].path = PathTestDir /\ argv[k].tree = BareTree

\* C10: walk_with_parents yields every node once, in pre-order, each with a
\* list equal to the path from the root to the node's parent; the later
\* appends and pops of the stack leave the lists already yielded as they
\* were, and the stack is empty when the traversal ends.
C10_PreOrderWithOwnSnapshots ==
    pc = "walk" =>
        /\ Len(yielded) <= Len(tree)
        /\ \A k \in 1..Len(yielded) :
              /\ yielded[k].node = PreOrder(tree, <<1>>)[k]
              /\ lists[yielded[k].parents] = AncestorPath(tree, yielded[k].node)
              /\ \A m \in 1..Len(yielded) :
                    /\ yielded[m].node = yielded[k].node => m = k
                    /\ yielded[m].node \in Range(AncestorPath(tree, yielded[k].node)) => m < k
        /\ frames = <<>> => Len(yielded) = Len(tree) /\ lists[1] = <<>>

\* a finished traversal that went two levels down and came back up to a
\* later child of the root
C10_Witness ==
    /\ pc = "walk"
    /\ frames = <<>>
    /\ Len(yielded) >= 4
    /\ \E k \in 1..Len(yielded) :
          /\ Len(lists[yielded[k].parents]) = 2
          /\ \E m \in (k + 1)..Len(yielded) : Len(lists[yielded[m].parents]) = 1

====
